---------------------------- MODULE Spec2Model ----------------------------
(***************************************************************************)
(* State-machine model of the Go observability demo service (src/main.go   *)
(* and its later revision src/unnamed/part_002): process start-up (logger, *)
(* tracer, router), the gin handler chain otelgin -> structuredLog ->      *)
(* prometheus -> business handler, and the process-wide Prometheus         *)
(* accumulators.                                                           *)
(*                                                                         *)
(* Library behaviour the program relies on is modelled where the program   *)
(* selects it:                                                             *)
(*  - gin.Default(): RedirectTrailingSlash = true, HandleMethodNotAllowed  *)
(*    = false; Engine.Use also installs the middlewares on the NoRoute     *)
(*    chain; a trailing-slash redirect is answered by the engine itself,   *)
(*    without running any handler of the chain.                            *)
(*  - otelgin.Middleware with no options: tracer provider and propagator   *)
(*    are the otel globals. The program sets the global tracer provider    *)
(*    only; the global propagator keeps its default, which extracts        *)
(*    nothing.                                                             *)
(*  - grpc.DialContext(context.Background(), ..., grpc.WithBlock()) returns *)
(*    only once the connection is up.                                      *)
(*  - prometheus Counter.Inc / Histogram.Observe are atomic.               *)
(***************************************************************************)
EXTENDS Integers, Sequences, FiniteSets, TLC

\* Number of requests a behaviour holds (all of them may be in flight at once).
MaxReq == 2

ReqIds == 1..MaxReq

VARIABLES
    mainPc,               \* position of main()
    workload,             \* environment: the requests clients send in this run
    collectorUp,          \* environment: otel-collector:4317 accepts connections
    logSinkOk,            \* environment: /app/logs can be created and app.log opened
    tracerProvider,       \* otel global tracer provider: "noop" | "sdk"
    mainLog,              \* log lines written by main(), in order
    exitCode,             \* process exit status, -1 while the process runs
    req,                  \* per-request gin.Context and client-side view
    nextReq,              \* id of the next request to arrive
    clock,                \* logical time of arrivals and completions
    logs,                 \* log lines written by handlers through getLogger
    httpRequestsTotal,    \* CounterVec  {method, handler, status}
    httpRequestDuration,  \* HistogramVec {method, handler}
    itemOperationsTotal,  \* CounterVec  {operation, status}
    searchRequestsTotal,  \* Counter
    searchResultsCount    \* Histogram

vars == <<mainPc, workload, collectorUp, logSinkOk, tracerProvider, mainLog, exitCode,
          req, nextReq, clock, logs, httpRequestsTotal, httpRequestDuration,
          itemOperationsTotal, searchRequestsTotal, searchResultsCount>>

metricVars == <<httpRequestsTotal, httpRequestDuration, itemOperationsTotal,
                searchRequestsTotal, searchResultsCount>>

mainVars == <<mainPc, workload, collectorUp, logSinkOk, tracerProvider, mainLog, exitCode>>

-----------------------------------------------------------------------------
(* Small helpers *)

RECURSIVE SumOver(_, _)
SumOver(f, S) ==
    IF S = {} THEN 0
    ELSE LET x == CHOOSE y \in S : TRUE IN f[x] + SumOver(f, S \ {x})

RECURSIVE CountIn(_, _)
CountIn(s, x) ==
    IF s = <<>> THEN 0
    ELSE (IF Head(s) = x THEN 1 ELSE 0) + CountIn(Tail(s), x)

IsPrefix(s, t) == Len(s) <= Len(t) /\ SubSeq(t, 1, Len(s)) = s

-----------------------------------------------------------------------------
(* Static data of the program *)

fakeItemsDB ==
    (1 :> [name |-> "laptop", price |-> 1200]) @@
    (2 :> [name |-> "mouse", price |-> 25]) @@
    (3 :> [name |-> "keyboard", price |-> 75])

allItems == <<
    [name |-> "laptop", price |-> 1200],
    [name |-> "mouse", price |-> 25],
    [name |-> "keyboard", price |-> 75],
    [name |-> "monitor", price |-> 300],
    [name |-> "webcam", price |-> 50] >>

\* prometheus.DefBuckets, in milliseconds.
DefBuckets == <<5, 10, 25, 50, 100, 250, 500, 1000, 2500, 5000, 10000>>

\* Buckets of search_results_count.
SearchBuckets == <<0, 1, 5, 10, 25, 50>>

\* router.Use(...) calls of main(), in registration order.
Middlewares == <<"otelgin", "structuredLog", "prometheus">>

\* router.GET / router.POST calls of main(): method, path segments, trailing
\* slash, route template (what c.FullPath() returns) and handler.
Routes == {
    [method |-> "GET",  segs |-> <<"metrics">>,           slash |-> FALSE,
     fullPath |-> "/metrics",        handler |-> "promhttp"],
    [method |-> "GET",  segs |-> <<>>,                    slash |-> TRUE,
     fullPath |-> "/",               handler |-> "readRoot"],
    [method |-> "GET",  segs |-> <<"items", ":item_id">>, slash |-> FALSE,
     fullPath |-> "/items/:item_id", handler |-> "readItem"],
    [method |-> "GET",  segs |-> <<"search">>,            slash |-> TRUE,
     fullPath |-> "/search/",        handler |-> "searchItems"],
    [method |-> "POST", segs |-> <<"items">>,             slash |-> TRUE,
     fullPath |-> "/items/",         handler |-> "createItem"],
    [method |-> "GET",  segs |-> <<"status">>,            slash |-> FALSE,
     fullPath |-> "/status",         handler |-> "getStatus"],
    [method |-> "GET",  segs |-> <<"error-500">>,         slash |-> FALSE,
     fullPath |-> "/error-500",      handler |-> "getError500"],
    [method |-> "GET",  segs |-> <<"error-400">>,         slash |-> FALSE,
     fullPath |-> "/error-400",      handler |-> "getError400"] }

\* Label the metrics middleware uses when c.FullPath() is empty.
UnmatchedLabel == "none"


-----------------------------------------------------------------------------
(* Identifiers and their textual form *)

HexDigits == <<"0", "1", "2", "3", "4", "5", "6", "7",
               "8", "9", "a", "b", "c", "d", "e", "f">>

\* TraceID.String() / SpanID.String(): lower-case hex, two digits per byte.
RECURSIVE HexString(_)
HexString(bytes) ==
    IF bytes = <<>> THEN <<>>
    ELSE <<HexDigits[(Head(bytes) \div 16) + 1], HexDigits[(Head(bytes) % 16) + 1]>>
         \o HexString(Tail(bytes))

\* Identifiers are byte strings (scaled down: 2 bytes per trace id, 1 per span
\* id); the all-zero identifier is the invalid one.
ZeroTraceID == <<0, 0>>
ZeroSpanID == <<0>>

\* The SDK's id generator draws fresh random ids; request r gets its own.
NewTraceID(r) == <<16, r>>
NewSpanID(r) == <<160 + r>>

\* Ids carried by an upstream caller's traceparent header.
UpstreamTraceID == <<171, 205>>
UpstreamSpanID == <<239>>

NoHeader == [present |-> FALSE, traceID |-> ZeroTraceID, spanID |-> ZeroSpanID]
ValidHeader == [present |-> TRUE, traceID |-> UpstreamTraceID, spanID |-> UpstreamSpanID]
MalformedHeader == [present |-> TRUE, traceID |-> ZeroTraceID, spanID |-> UpstreamSpanID]

\* A traceparent header names a valid upstream span context.
HeaderValid(h) == h.present /\ h.traceID # ZeroTraceID /\ h.spanID # ZeroSpanID

\* SpanContext.IsValid()
SpanContextIsValid(sc) == sc.traceID # ZeroTraceID /\ sc.spanID # ZeroSpanID

NoSpanContext == [traceID |-> ZeroTraceID, spanID |-> ZeroSpanID]

\* otel.GetTextMapPropagator().Extract: the program never calls
\* otel.SetTextMapPropagator, so the global propagator is the default one,
\* which reads no header and leaves the context without a remote parent.
GlobalPropagatorExtract(h) == NoSpanContext

\* tracer.Start under the provider otelgin got from otel.GetTracerProvider():
\* the SDK tracer continues the parent's trace or starts a new one; the
\* default (no-op) tracer hands back the parent's span context unchanged.
TracerStart(provider, parent, r) ==
    IF provider = "sdk"
    THEN [traceID |-> IF SpanContextIsValid(parent) THEN parent.traceID
                      ELSE NewTraceID(r),
          spanID |-> NewSpanID(r),
          parentSpanID |-> IF SpanContextIsValid(parent) THEN parent.spanID
                           ELSE ZeroSpanID,
          ended |-> FALSE]
    ELSE [traceID |-> parent.traceID, spanID |-> parent.spanID,
          parentSpanID |-> ZeroSpanID, ended |-> FALSE]

NoSpan == [traceID |-> ZeroTraceID, spanID |-> ZeroSpanID,
           parentSpanID |-> ZeroSpanID, ended |-> FALSE]

-----------------------------------------------------------------------------
(* Text conversions used by the handlers *)

\* The characters of the strings the handlers inspect.
Chars ==
    ("1" :> <<"1">>) @@ ("3" :> <<"3">>) @@ ("999" :> <<"9", "9", "9">>) @@
    ("abc" :> <<"a", "b", "c">>) @@ ("-1" :> <<"-", "1">>) @@
    ("laptop" :> <<"l", "a", "p", "t", "o", "p">>) @@
    ("mouse" :> <<"m", "o", "u", "s", "e">>) @@
    ("keyboard" :> <<"k", "e", "y", "b", "o", "a", "r", "d">>) @@
    ("monitor" :> <<"m", "o", "n", "i", "t", "o", "r">>) @@
    ("webcam" :> <<"w", "e", "b", "c", "a", "m">>)

Digits == <<"0", "1", "2", "3", "4", "5", "6", "7", "8", "9">>

IsDigit(c) == \E i \in 1..Len(Digits) : Digits[i] = c

DigitVal(c) == (CHOOSE i \in 1..Len(Digits) : Digits[i] = c) - 1

RECURSIVE DecimalValue(_, _)
DecimalValue(cs, acc) ==
    IF cs = <<>> THEN acc
    ELSE DecimalValue(Tail(cs), 10 * acc + DigitVal(Head(cs)))

AllDigits(cs) == cs # <<>> /\ \A i \in 1..Len(cs) : IsDigit(cs[i])

\* strconv.Atoi: optional sign, then decimal digits.
Atoi(cs) ==
    LET signed == cs # <<>> /\ Head(cs) \in {"+", "-"}
        ds == IF signed THEN Tail(cs) ELSE cs
    IN IF AllDigits(ds)
       THEN [ok |-> TRUE,
             val |-> IF signed /\ Head(cs) = "-" THEN 0 - DecimalValue(ds, 0)
                     ELSE DecimalValue(ds, 0)]
       ELSE [ok |-> FALSE, val |-> 0]

\* strconv.ParseFloat restricted to the inputs of this model: optionally signed
\* decimal integers parse, anything else drawn here is a syntax error.
ParseFloat(cs) == Atoi(cs)

UpperCase == <<"A", "L", "M", "O", "P", "T">>
LowerCase == <<"a", "l", "m", "o", "p", "t">>

ToLowerChar(c) ==
    IF \E i \in 1..Len(UpperCase) : UpperCase[i] = c
    THEN LowerCase[CHOOSE i \in 1..Len(UpperCase) : UpperCase[i] = c]
    ELSE c

\* strings.ToLower
ToLower(cs) == [i \in 1..Len(cs) |-> ToLowerChar(cs[i])]

\* strings.Contains
Contains(s, sub) ==
    \E i \in 0..(Len(s) - Len(sub)) : SubSeq(s, i + 1, i + Len(sub)) = sub

-----------------------------------------------------------------------------
(* Prometheus accumulators *)

\* CounterVec.WithLabelValues(lbl).Inc(): the series is created on first use.
Inc(cv, lbl) ==
    IF lbl \in DOMAIN cv THEN [cv EXCEPT ![lbl] = @ + 1] ELSE cv @@ (lbl :> 1)

\* Index of the first bucket whose upper bound is >= v; Len + 1 is +Inf.
BucketIndex(bounds, v) ==
    IF \E i \in 1..Len(bounds) : v <= bounds[i]
    THEN CHOOSE i \in 1..Len(bounds) :
            v <= bounds[i] /\ \A j \in 1..(i - 1) : v > bounds[j]
    ELSE Len(bounds) + 1

EmptyHistogram(bounds) ==
    [count |-> 0, sum |-> 0, buckets |-> [i \in 1..(Len(bounds) + 1) |-> 0]]

\* Histogram.Observe(v)
Observe(h, bounds, v) ==
    [count |-> h.count + 1, sum |-> h.sum + v,
     buckets |-> [h.buckets EXCEPT ![BucketIndex(bounds, v)] = @ + 1]]

\* HistogramVec.WithLabelValues(lbl).Observe(v)
ObserveVec(hv, lbl, bounds, v) ==
    IF lbl \in DOMAIN hv
    THEN [hv EXCEPT ![lbl] = Observe(@, bounds, v)]
    ELSE hv @@ (lbl :> Observe(EmptyHistogram(bounds), bounds, v))

\* Total of a CounterVec over all its series.
CounterSum(cv) == SumOver(cv, DOMAIN cv)

\* Total observation count of a HistogramVec over all its series.
HistogramCount(hv) == SumOver([l \in DOMAIN hv |-> hv[l].count], DOMAIN hv)

\* What promhttp.Handler() writes: the current value of every registered series.
Gather ==
    [http_requests_total |-> httpRequestsTotal,
     http_request_duration_seconds |-> httpRequestDuration,
     item_operations_total |-> itemOperationsTotal,
     search_requests_total |-> searchRequestsTotal,
     search_results_count |-> searchResultsCount]

-----------------------------------------------------------------------------
(* gin routing *)

IsParam(pat) == pat = ":item_id"

SegsMatch(pat, segs) ==
    /\ Len(pat) = Len(segs)
    /\ \A i \in 1..Len(pat) : IF IsParam(pat[i]) THEN segs[i] # "" ELSE pat[i] = segs[i]

\* Routes of the method's tree that match the path exactly.
Matching(method, segs, slash) ==
    {rt \in Routes : rt.method = method /\ rt.slash = slash /\ SegsMatch(rt.segs, segs)}

\* Routes of the method's tree that match once the trailing slash is added or
\* removed (node.getValue's tsr recommendation).
MatchingTSR(method, segs, slash) ==
    {rt \in Routes : rt.method = method /\ rt.slash # slash /\ SegsMatch(rt.segs, segs)}

\* Engine.handleHTTPRequest with gin.Default()'s settings: a matching route is
\* dispatched with the middlewares in front of its handler; a path that only
\* matches with the trailing slash toggled is redirected by the engine itself;
\* everything else is dispatched to the NoRoute chain (the middlewares, then
\* the default 404).
Route(method, segs, slash) ==
    IF Matching(method, segs, slash) # {}
    THEN LET rt == CHOOSE x \in Matching(method, segs, slash) : TRUE
         IN [kind |-> "route", fullPath |-> rt.fullPath, handler |-> rt.handler]
    ELSE IF segs # <<>> /\ MatchingTSR(method, segs, slash) # {}
    THEN [kind |-> "redirect", fullPath |-> "", handler |-> "redirectTrailingSlash"]
    ELSE [kind |-> "noRoute", fullPath |-> "", handler |-> "noRoute"]

\* http.Redirect status chosen by gin's redirectRequest.
RedirectStatus(method) == IF method = "GET" THEN 301 ELSE 307

-----------------------------------------------------------------------------
(* Requests a client can send *)

NoQuery == [name |-> <<>>, hasMinPrice |-> FALSE, min_price |-> <<>>]

NoBody == [json |-> FALSE, name |-> "", price |-> 0]

Request(method, segs, slash, hdr, query, body) ==
    [method |-> method, segs |-> segs, slash |-> slash, hdr |-> hdr,
     query |-> query, body |-> body]

Plain(method, segs, slash) == Request(method, segs, slash, NoHeader, NoQuery, NoBody)

\* Query strings sent to /search/.
Queries == {
    [name |-> <<"l", "a", "p", "t", "o", "p">>, hasMinPrice |-> TRUE,
     min_price |-> <<"1", "0", "0">>],
    NoQuery,
    [name |-> <<"L", "A", "P">>, hasMinPrice |-> TRUE,
     min_price |-> <<"a", "b", "c">>],
    [name |-> <<"O">>, hasMinPrice |-> TRUE, min_price |-> <<"1", "0", "0">>] }

\* JSON bodies sent to POST /items/.
Bodies == {
    [json |-> TRUE, name |-> "tablet", price |-> 500],
    [json |-> TRUE, name |-> "tablet", price |-> 0] }

\* The requests of the model: every route, an absent and a non-numeric item
\* id, a path that differs from a route by its trailing slash, an unknown
\* path, a method without routes, and upstream trace headers.
Inputs ==
    {Plain("GET", <<>>, TRUE),
     Plain("GET", <<"items", "1">>, FALSE),
     Plain("GET", <<"items", "999">>, FALSE),
     Plain("GET", <<"items", "abc">>, FALSE),
     Plain("GET", <<"status">>, FALSE),
     Plain("GET", <<"status">>, TRUE),
     Plain("GET", <<"error-500">>, FALSE),
     Plain("GET", <<"error-400">>, FALSE),
     Plain("GET", <<"metrics">>, FALSE),
     Plain("GET", <<"nope">>, FALSE),
     Plain("BREW", <<"status">>, FALSE)}
    \cup {Request("GET", <<"search">>, TRUE, NoHeader, q, NoBody) : q \in Queries}
    \cup {Request("POST", <<"items">>, TRUE, NoHeader, NoQuery, b) : b \in Bodies}
    \cup {Request("GET", <<"status">>, FALSE, h, NoQuery, NoBody) :
            h \in {ValidHeader, MalformedHeader}}

\* A smaller load that still reaches every route and handler, the redirect
\* and the NoRoute chain.
LiveInputs ==
    {Plain("GET", <<>>, TRUE),
     Plain("GET", <<"items", "999">>, FALSE),
     Plain("GET", <<"status">>, FALSE),
     Plain("GET", <<"status">>, TRUE),
     Plain("GET", <<"error-500">>, FALSE),
     Plain("GET", <<"error-400">>, FALSE),
     Plain("GET", <<"metrics">>, FALSE),
     Plain("GET", <<"nope">>, FALSE),
     Request("GET", <<"search">>, TRUE, NoHeader, NoQuery, NoBody),
     Request("POST", <<"items">>, TRUE, NoHeader, NoQuery,
             [json |-> TRUE, name |-> "tablet", price |-> 0])}

\* Durations time.Since(start) can report, in milliseconds.
Durations == {3, 700}

-----------------------------------------------------------------------------
(* Loggers *)

\* The base logger main() builds, and the one getLogger builds as a fallback.
BaseLogger == [sink |-> "base", attrs |-> {}]
DefaultLogger == [sink |-> "default", attrs |-> {}]

\* logger.With("trace_id", ..., "span_id", ...)
LoggerWith(l, traceID, spanID) ==
    [l EXCEPT !.attrs = @ \cup {<<"trace_id", HexString(traceID)>>,
                                <<"span_id", HexString(spanID)>>}]

\* A middleware that derived one enriched logger and kept it for every request.
RequestLogger_Shared(span) ==
    IF SpanContextIsValid(span)
    THEN LoggerWith(BaseLogger, NewTraceID(1), NewSpanID(1))
    ELSE BaseLogger

\* The logger structuredLogMiddleware stores under "logger".
RequestLogger(span) ==
    IF SpanContextIsValid(span)
    THEN LoggerWith(BaseLogger, span.traceID, span.spanID)
    ELSE BaseLogger

\* An accessor that hands out the default logger whatever the context holds.
getLogger_IgnoresBound(keys) == DefaultLogger

\* getLogger(c)
getLogger(keys) ==
    IF "logger" \in DOMAIN keys THEN keys["logger"] ELSE DefaultLogger

\* One line written through a logger by request r.
LogLine(r, l, level, msg) ==
    [req |-> r, level |-> level, msg |-> msg, sink |-> l.sink, attrs |-> l.attrs]

-----------------------------------------------------------------------------
(* Per-request state *)

NoKeys == [k \in {} |-> BaseLogger]

Idle ==
    [st |-> "Idle", in |-> Plain("GET", <<>>, TRUE), route |-> Route("GET", <<>>, TRUE),
     idx |-> 0, phase |-> "none", span |-> NoSpan, keys |-> NoKeys,
     status |-> 200, written |-> FALSE, body |-> <<>>,
     trail |-> <<>>, aborted |-> FALSE, nObserve |-> 0, nInc |-> 0,
     tIn |-> 0, tOut |-> 0]

\* Handlers gin runs for a dispatched request: the middlewares, then the
\* route's handler (the NoRoute chain has the middlewares only).
Chain(rq) ==
    IF rq.route.kind = "route" THEN Middlewares \o <<rq.route.handler>>
    ELSE Middlewares

\* Middlewares with code after their c.Next().
HasPost(h) == h \in {"otelgin", "prometheus"}

\* Where control returns to when the handler at position i returns: the
\* nearest enclosing handler with code after its c.Next(), or 0 (the engine).
RECURSIVE ReturnTo(_, _)
ReturnTo(chain, i) ==
    IF i <= 1 THEN 0
    ELSE IF HasPost(chain[i - 1]) THEN i - 1
    ELSE ReturnTo(chain, i - 1)

InFlight(r) == req[r].st \notin {"Idle", "Exited"}

\* The handler the request's c.Next() runs next.
Current(r) ==
    IF req[r].idx \in 1..Len(Chain(req[r])) THEN Chain(req[r])[req[r].idx] ELSE "none"


AtPost(r, h) == InFlight(r) /\ req[r].phase = "post" /\ Current(r) = h

\* c.Next() from the handler at the current position.
CallNext(rq, st) ==
    [rq EXCEPT !.idx = @ + 1, !.st = st, !.trail = Append(@, st)]

\* The handler at the current position returns.
Return(rq, st) ==
    LET to == ReturnTo(Chain(rq), rq.idx)
    IN [rq EXCEPT !.idx = to, !.phase = IF to = 0 THEN "engine" ELSE "post",
                  !.st = st, !.trail = Append(@, st)]

-----------------------------------------------------------------------------
(* main() *)

InitWith(load) ==
    /\ mainPc = "newSlogLogger"
    /\ workload = load
    /\ collectorUp \in BOOLEAN
    /\ logSinkOk \in BOOLEAN
    /\ tracerProvider = "noop"
    /\ mainLog = <<>>
    /\ exitCode = -1
    /\ req = [r \in ReqIds |-> Idle]
    /\ nextReq = 1
    /\ clock = 0
    /\ logs = {}
    /\ httpRequestsTotal = <<>>
    /\ httpRequestDuration = <<>>
    /\ itemOperationsTotal = <<>>
    /\ searchRequestsTotal = 0
    /\ searchResultsCount = EmptyHistogram(SearchBuckets)

Init == InitWith(Inputs)

LiveInit == InitWith(LiveInputs)

\* A main() that carries on without its log sink.
NewSlogLogger_Continue ==
    /\ mainPc = "newSlogLogger"
    /\ mainPc' = "initTracer"
    /\ UNCHANGED <<workload, collectorUp, logSinkOk, tracerProvider, mainLog, exitCode, req,
                   nextReq, clock, logs, metricVars>>

\* logger, err := newSlogLogger(); a logger that cannot open its sink ends the
\* process with status 1.
NewSlogLogger ==
    /\ mainPc = "newSlogLogger"
    /\ IF logSinkOk
       THEN mainPc' = "initTracer" /\ exitCode' = exitCode
       ELSE mainPc' = "exited" /\ exitCode' = 1
    /\ UNCHANGED <<workload, collectorUp, logSinkOk, tracerProvider, mainLog, req, nextReq,
                   clock, logs, metricVars>>

\* initTracer: grpc.DialContext with WithBlock and a context that never
\* expires returns once the collector accepts the connection, and not before.
InitTracerDial ==
    /\ mainPc = "initTracer"
    /\ collectorUp
    /\ mainPc' = "initTracerBuild"
    /\ UNCHANGED <<workload, collectorUp, logSinkOk, tracerProvider, mainLog, exitCode, req,
                   nextReq, clock, logs, metricVars>>

\* The rest of initTracer and main's branch on its error: exporter and
\* resource are built (either may report an error), the provider is installed
\* with otel.SetTracerProvider, and main logs the outcome.
InitTracerBuild ==
    /\ mainPc = "initTracerBuild"
    /\ \E ok \in BOOLEAN :
         IF ok
         THEN /\ tracerProvider' = "sdk"
              /\ mainLog' = Append(mainLog, <<"INFO", "Tracer initialized successfully">>)
         ELSE /\ tracerProvider' = tracerProvider
              /\ mainLog' = Append(mainLog, <<"ERROR", "Failed to initialize tracer">>)
    /\ mainPc' = "setup"
    /\ UNCHANGED <<workload, collectorUp, logSinkOk, exitCode, req, nextReq, clock, logs,
                   metricVars>>

\* gin.Default(), router.Use(...), the routes, and router.Run(":5060").
SetupAndRun ==
    /\ mainPc = "setup"
    /\ \E bound \in BOOLEAN :
         IF bound
         THEN /\ mainPc' = "serving"
              /\ exitCode' = exitCode
              /\ mainLog' = Append(mainLog, <<"INFO", "Starting server on port 5060...">>)
         ELSE /\ mainPc' = "exited"
              /\ exitCode' = 1
              /\ mainLog' = mainLog \o <<<<"INFO", "Starting server on port 5060...">>,
                                         <<"ERROR", "Failed to start server">>>>
    /\ UNCHANGED <<workload, collectorUp, logSinkOk, tracerProvider, req, nextReq, clock, logs,
                   metricVars>>

\* Environment: the collector starts accepting connections while main waits.
CollectorBecomesReachable ==
    /\ mainPc = "initTracer"
    /\ ~collectorUp
    /\ collectorUp' = TRUE
    /\ UNCHANGED <<mainPc, workload, logSinkOk, tracerProvider, mainLog, exitCode, req, nextReq,
                   clock, logs, metricVars>>

-----------------------------------------------------------------------------
(* The engine and the middlewares *)

\* A request reaches Engine.ServeHTTP; handleHTTPRequest looks the route up.
\* serveError sets the NoRoute chain's status to 404 before running it.
Arrive(r) ==
    /\ mainPc = "serving"
    /\ r = nextReq
    /\ req[r].st = "Idle"
    /\ \E in \in workload :
         LET rt == Route(in.method, in.segs, in.slash)
         IN req' = [req EXCEPT ![r] =
                [Idle EXCEPT !.st = "Entered", !.in = in, !.route = rt,
                             !.idx = IF rt.kind = "redirect" THEN 0 ELSE 1,
                             !.phase = IF rt.kind = "redirect" THEN "engine" ELSE "pre",
                             !.status = IF rt.kind = "noRoute" THEN 404 ELSE 200,
                             !.trail = <<"Entered">>, !.tIn = clock + 1]]
    /\ nextReq' = nextReq + 1
    /\ clock' = clock + 1
    /\ UNCHANGED <<mainVars, logs, metricVars>>

\* redirectTrailingSlash: the engine answers with a redirect and runs no
\* handler of the chain.
RedirectTrailingSlash(r) ==
    /\ req[r].st = "Entered"
    /\ req[r].route.kind = "redirect"
    /\ req' = [req EXCEPT ![r].status = RedirectStatus(req[r].in.method),
                          ![r].written = TRUE,
                          ![r].st = "Exited",
                          ![r].trail = Append(@, "Exited"),
                          ![r].tOut = clock + 1]
    /\ clock' = clock + 1
    /\ UNCHANGED <<mainVars, nextReq, logs, metricVars>>

\* otelgin.Middleware, before c.Next(): extract the remote parent with the
\* global propagator and start the request's span.
OtelPre(rq, r) ==
    LET parent == GlobalPropagatorExtract(rq.in.hdr)
        span == TracerStart(tracerProvider, parent, r)
    IN CallNext([rq EXCEPT !.span = span], "SpanActive")

\* structuredLogMiddleware: c.Set("logger", requestLogger); c.Next().
StructuredLogPre(rq) ==
    CallNext([rq EXCEPT !.keys = ("logger" :> RequestLogger(rq.span)) @@ @],
             "LoggerBound")

\* prometheusMiddleware, before c.Next(): start := time.Now().
PrometheusPre(rq) == CallNext(rq, "Timing")

\* The code a middleware runs up to and including its c.Next().
MiddlewarePre(h, rq, r) ==
    CASE h = "otelgin" -> OtelPre(rq, r)
      [] h = "structuredLog" -> StructuredLogPre(rq)
      [] h = "prometheus" -> PrometheusPre(rq)

\* Context.Next() from the engine: each middleware runs its code before
\* c.Next() in chain order, until the route's handler is reached. On the
\* NoRoute chain no handler follows the middlewares and the innermost
\* c.Next() returns at once.
RECURSIVE RunPre(_, _)
RunPre(rq, r) ==
    IF rq.idx <= Len(Middlewares)
    THEN RunPre(MiddlewarePre(Middlewares[rq.idx], rq, r), r)
    ELSE LET entered == [rq EXCEPT !.st = "HandlerExecuting",
                                   !.trail = Append(@, "HandlerExecuting")]
         IN IF rq.route.kind = "route" THEN entered
            ELSE [entered EXCEPT
                    !.idx = ReturnTo(Chain(rq), rq.idx),
                    !.phase = IF ReturnTo(Chain(rq), rq.idx) = 0 THEN "engine" ELSE "post",
                    !.st = "HandlerDone", !.trail = Append(@, "HandlerDone")]

\* handleHTTPRequest dispatches the request into its handler chain. The steps
\* up to the handler touch the request's own context only.
Dispatch(r) ==
    /\ req[r].st = "Entered"
    /\ req[r].route.kind # "redirect"
    /\ req' = [req EXCEPT ![r] = RunPre(@, r)]
    /\ UNCHANGED <<mainVars, nextReq, clock, logs, metricVars>>

\* Labels prometheusMiddleware computes after c.Next().
MetricPath(rq) == IF rq.route.fullPath = "" THEN UnmatchedLabel ELSE rq.route.fullPath

DurationLabels(rq) == <<rq.in.method, MetricPath(rq)>>

RequestLabels(rq) == <<rq.in.method, MetricPath(rq), rq.status>>

\* A metrics middleware that returns early once the client has gone away.
PrometheusObserve_SkipAborted(r) ==
    /\ AtPost(r, "prometheus")
    /\ IF req[r].aborted
       THEN /\ req' = [req EXCEPT ![r] = Return(@, "MetricsSkipped")]
            /\ httpRequestDuration' = httpRequestDuration
       ELSE \E d \in Durations :
            /\ httpRequestDuration' =
                   ObserveVec(httpRequestDuration, DurationLabels(req[r]), DefBuckets, d)
            /\ req' = [req EXCEPT ![r].phase = "postInc", ![r].nObserve = @ + 1]
    /\ UNCHANGED <<mainVars, nextReq, clock, logs, httpRequestsTotal,
                   itemOperationsTotal, searchRequestsTotal, searchResultsCount>>

\* prometheusMiddleware, after c.Next():
\* httpRequestDuration.WithLabelValues(method, path).Observe(duration).
PrometheusObserve(r) ==
    /\ AtPost(r, "prometheus")
    /\ \E d \in Durations :
         /\ httpRequestDuration' =
                ObserveVec(httpRequestDuration, DurationLabels(req[r]), DefBuckets, d)
         /\ req' = [req EXCEPT ![r].phase = "postInc", ![r].nObserve = @ + 1]
    /\ UNCHANGED <<mainVars, nextReq, clock, logs, httpRequestsTotal,
                   itemOperationsTotal, searchRequestsTotal, searchResultsCount>>

\* prometheusMiddleware, last statement:
\* httpRequestsTotal.WithLabelValues(method, path, status).Inc().
PrometheusInc(r) ==
    /\ InFlight(r)
    /\ req[r].phase = "postInc"
    /\ httpRequestsTotal' = Inc(httpRequestsTotal, RequestLabels(req[r]))
    /\ req' = [req EXCEPT ![r] =
            Return([@ EXCEPT !.nInc = @ + 1], "MetricsRecorded")]
    /\ UNCHANGED <<mainVars, nextReq, clock, logs, httpRequestDuration,
                   itemOperationsTotal, searchRequestsTotal, searchResultsCount>>

\* otelgin.Middleware, after c.Next(): span.End().
OtelPost(rq) == Return([rq EXCEPT !.span.ended = TRUE], "SpanClosed")

\* The code a middleware runs after its c.Next() returned, when it touches
\* the request's own context only.
MiddlewarePost(h, rq) ==
    CASE h = "otelgin" -> OtelPost(rq)
      [] OTHER -> Return(rq, rq.st)

\* The chain returns to the engine through the middlewares outside the
\* metrics middleware.
RECURSIVE RunPost(_)
RunPost(rq) ==
    IF rq.phase = "post" /\ rq.idx >= 1 /\ Chain(rq)[rq.idx] # "prometheus"
    THEN RunPost(MiddlewarePost(Chain(rq)[rq.idx], rq))
    ELSE rq

\* The rest of the chain returns and the engine completes the response (the
\* default 404 body if nothing was written): the request is over.
Finish(r) ==
    /\ InFlight(r)
    /\ req[r].route.kind # "redirect"
    /\ req[r].phase \in {"engine", "post"}
    /\ Current(r) # "prometheus"
    /\ LET rq == RunPost(req[r])
       IN /\ rq.phase = "engine"
          /\ req' = [req EXCEPT ![r] =
                [rq EXCEPT !.written = TRUE,
                           !.body = IF rq.written THEN @ ELSE <<"404 page not found">>,
                           !.st = "Exited",
                           !.trail = Append(@, "Exited"),
                           !.tOut = clock + 1]]
    /\ clock' = clock + 1
    /\ UNCHANGED <<mainVars, nextReq, logs, metricVars>>

\* Environment: the client drops the connection while the request is in
\* flight. No handler of the program looks at the request context's state.
ClientAbort(r) ==
    /\ InFlight(r)
    /\ ~req[r].aborted
    /\ req' = [req EXCEPT ![r].aborted = TRUE]
    /\ UNCHANGED <<mainVars, nextReq, clock, logs, metricVars>>

-----------------------------------------------------------------------------
(* Business handlers *)

AtHandler(r, h) ==
    /\ InFlight(r)
    /\ req[r].phase = "pre"
    /\ req[r].st = "HandlerExecuting"
    /\ Current(r) = h

\* c.JSON(code, body), then the handler returns.
Respond(rq, code, body) ==
    Return([rq EXCEPT !.status = code, !.written = TRUE, !.body = body], "HandlerDone")

readRoot(r) ==
    /\ AtHandler(r, "readRoot")
    /\ logs' = logs \cup
            {LogLine(r, getLogger(req[r].keys), "INFO", "Accessed root endpoint")}
    /\ req' = [req EXCEPT ![r] = Respond(@, 200, <<"Welcome to the Go application!">>)]
    /\ UNCHANGED <<mainVars, nextReq, clock, metricVars>>

\* A readItem that counts an absent item as a successful read.
ReadItemOutcome_NotFoundAsSuccess(itemIDStr) ==
    LET parsed == Atoi(Chars[itemIDStr])
    IN IF ~parsed.ok
       THEN [level |-> "WARN", msg |-> "Invalid item ID", label |-> "bad_request",
             code |-> 400, body |-> <<"Invalid item ID">>]
       ELSE IF parsed.val \notin DOMAIN fakeItemsDB
       THEN [level |-> "INFO", msg |-> "Item not found", label |-> "success",
             code |-> 404, body |-> <<"Item not found">>]
       ELSE [level |-> "INFO", msg |-> "Successfully retrieved item",
             label |-> "success", code |-> 200,
             body |-> <<parsed.val, fakeItemsDB[parsed.val]>>]

\* What readItem does with the item_id path parameter: log level and message,
\* status label of item_operations_total, response code and body.
ReadItemOutcome(itemIDStr) ==
    LET parsed == Atoi(Chars[itemIDStr])
    IN IF ~parsed.ok
       THEN [level |-> "WARN", msg |-> "Invalid item ID", label |-> "bad_request",
             code |-> 400, body |-> <<"Invalid item ID">>]
       ELSE IF parsed.val \notin DOMAIN fakeItemsDB
       THEN [level |-> "INFO", msg |-> "Item not found", label |-> "not_found",
             code |-> 404, body |-> <<"Item not found">>]
       ELSE [level |-> "INFO", msg |-> "Successfully retrieved item",
             label |-> "success", code |-> 200,
             body |-> <<parsed.val, fakeItemsDB[parsed.val]>>]

\* A readItem that leaves an invalid id out of item_operations_total.
readItem_NoCountOnBadId(r) ==
    /\ AtHandler(r, "readItem")
    /\ LET out == ReadItemOutcome(req[r].in.segs[2])
       IN /\ logs' = logs \cup {LogLine(r, getLogger(req[r].keys), out.level, out.msg)}
          /\ itemOperationsTotal' =
                IF out.label = "bad_request" THEN itemOperationsTotal
                ELSE Inc(itemOperationsTotal, <<"read", out.label>>)
          /\ req' = [req EXCEPT ![r] = Respond(@, out.code, out.body)]
    /\ UNCHANGED <<mainVars, nextReq, clock, httpRequestsTotal, httpRequestDuration,
                   searchRequestsTotal, searchResultsCount>>

readItem(r) ==
    /\ AtHandler(r, "readItem")
    /\ LET out == ReadItemOutcome(req[r].in.segs[2])
       IN /\ logs' = logs \cup {LogLine(r, getLogger(req[r].keys), out.level, out.msg)}
          /\ itemOperationsTotal' = Inc(itemOperationsTotal, <<"read", out.label>>)
          /\ req' = [req EXCEPT ![r] = Respond(@, out.code, out.body)]
    /\ UNCHANGED <<mainVars, nextReq, clock, httpRequestsTotal, httpRequestDuration,
                   searchRequestsTotal, searchResultsCount>>

\* A search that filters by name only.
SearchResults_IgnoresPrice(name, minPrice) ==
    LET Match(item) ==
            name = <<>> \/ Contains(ToLower(Chars[item.name]), ToLower(name))
    IN SelectSeq(allItems, Match)

\* The items searchItems returns for a query, in catalogue order.
SearchResults(name, minPrice) ==
    LET Match(item) ==
            /\ name = <<>> \/ Contains(ToLower(Chars[item.name]), ToLower(name))
            /\ item.price >= minPrice
    IN SelectSeq(allItems, Match)

searchItems(r) ==
    /\ AtHandler(r, "searchItems")
    /\ LET logger == getLogger(req[r].keys)
           q == req[r].in.query
           minPriceStr == IF q.hasMinPrice THEN q.min_price ELSE <<"0">>
           parsed == ParseFloat(minPriceStr)
           minPrice == IF parsed.ok THEN parsed.val ELSE 0
           results == SearchResults(q.name, minPrice)
       IN /\ searchRequestsTotal' = searchRequestsTotal + 1
          /\ searchResultsCount' = Observe(searchResultsCount, SearchBuckets, Len(results))
          /\ logs' = logs
                \cup (IF parsed.ok THEN {}
                      ELSE {LogLine(r, logger, "WARN", "Invalid min_price query param")})
                \cup {LogLine(r, logger, "INFO", "Search performed")}
          /\ req' = [req EXCEPT ![r] = Respond(@, 200, results)]
    /\ UNCHANGED <<mainVars, nextReq, clock, httpRequestsTotal, httpRequestDuration,
                   itemOperationsTotal>>

\* c.ShouldBindJSON(&item) with binding:"required" on Name and Price: the
\* body must be JSON and neither field may be absent or hold its zero value.
BindsItem(body) == body.json /\ body.name # "" /\ body.price # 0

createItem(r) ==
    /\ AtHandler(r, "createItem")
    /\ LET logger == getLogger(req[r].keys)
           ok == BindsItem(req[r].in.body)
       IN /\ logs' = logs \cup
                {IF ok THEN LogLine(r, logger, "INFO", "Item created successfully")
                 ELSE LogLine(r, logger, "WARN", "Failed to bind JSON for create item")}
          /\ itemOperationsTotal' =
                Inc(itemOperationsTotal,
                    <<"create", IF ok THEN "success" ELSE "bad_request">>)
          /\ req' = [req EXCEPT ![r] =
                IF ok THEN Respond(@, 200, <<"Item created successfully", req[r].in.body>>)
                ELSE Respond(@, 400, <<"bind error">>)]
    /\ UNCHANGED <<mainVars, nextReq, clock, httpRequestsTotal, httpRequestDuration,
                   searchRequestsTotal, searchResultsCount>>

getStatus(r) ==
    /\ AtHandler(r, "getStatus")
    /\ logs' = logs \cup
            {LogLine(r, getLogger(req[r].keys), "INFO", "Health check performed")}
    /\ req' = [req EXCEPT ![r] = Respond(@, 200, <<"healthy", "1.0">>)]
    /\ UNCHANGED <<mainVars, nextReq, clock, metricVars>>

getError500(r) ==
    /\ AtHandler(r, "getError500")
    /\ logs' = logs \cup
            {LogLine(r, getLogger(req[r].keys), "ERROR",
                     "Simulating 500 Internal Server Error")}
    /\ req' = [req EXCEPT ![r] = Respond(@, 500, <<"Internal Server Error">>)]
    /\ UNCHANGED <<mainVars, nextReq, clock, metricVars>>

getError400(r) ==
    /\ AtHandler(r, "getError400")
    /\ logs' = logs \cup
            {LogLine(r, getLogger(req[r].keys), "WARN", "Simulating 400 Bad Request")}
    /\ req' = [req EXCEPT ![r] = Respond(@, 400, <<"Bad Request">>)]
    /\ UNCHANGED <<mainVars, nextReq, clock, metricVars>>

\* gin.WrapH(promhttp.Handler()): the response is the current state of the
\* registered series.
promhttp(r) ==
    /\ AtHandler(r, "promhttp")
    /\ req' = [req EXCEPT ![r] = Respond(@, 200, Gather)]
    /\ UNCHANGED <<mainVars, nextReq, clock, logs, metricVars>>

-----------------------------------------------------------------------------
(* Specification *)

MainStep ==
    \/ NewSlogLogger
    \/ InitTracerDial
    \/ InitTracerBuild
    \/ SetupAndRun

Handler(r) ==
    \/ readRoot(r)
    \/ readItem(r)
    \/ searchItems(r)
    \/ createItem(r)
    \/ getStatus(r)
    \/ getError500(r)
    \/ getError400(r)
    \/ promhttp(r)

\* The steps the goroutine serving request r takes by itself.
RequestStep(r) ==
    \/ RedirectTrailingSlash(r)
    \/ Dispatch(r)
    \/ Handler(r)
    \/ PrometheusObserve(r)
    \/ PrometheusInc(r)
    \/ Finish(r)

Next ==
    \/ MainStep
    \/ CollectorBecomesReachable
    \/ \E r \in ReqIds : Arrive(r)
    \/ \E r \in ReqIds : RequestStep(r)
    \/ \E r \in ReqIds : ClientAbort(r)

Spec == Init /\ [][Next]_vars

\* The Go scheduler runs every runnable goroutine: main() and each request's
\* goroutine keep taking their steps. Arrivals, aborts and the collector are
\* the environment's and get no fairness.
FairSpec ==
    /\ LiveInit /\ [][Next]_vars
    /\ WF_vars(MainStep)
    /\ \A r \in ReqIds : WF_vars(RequestStep(r))

-----------------------------------------------------------------------------
(* Vocabulary of the properties *)

Exited(r) == req[r].st = "Exited"

Arrived(r) == req[r].st # "Idle"

\* The engine handed the request to a handler chain.
Dispatched(r) == Arrived(r) /\ req[r].route.kind # "redirect"

Quiescent == \A r \in ReqIds : ~InFlight(r)

\* The per-request state sequence of the design.
PipelineStates ==
    <<"Entered", "SpanActive", "LoggerBound", "Timing", "HandlerExecuting",
      "HandlerDone", "MetricsRecorded", "SpanClosed", "Exited">>

\* The handler label the design asks for: the matched route's template, or
\* the unmatched sentinel.
ExpectedHandlerLabel(r) ==
    IF req[r].route.kind = "route" THEN req[r].route.fullPath ELSE UnmatchedLabel

\* The request's observation and increment are in the accumulators, once each,
\* under the expected labels.
RecordedOnce(r) ==
    /\ req[r].nObserve = 1
    /\ req[r].nInc = 1
    /\ <<req[r].in.method, ExpectedHandlerLabel(r)>> \in DOMAIN httpRequestDuration
    /\ <<req[r].in.method, ExpectedHandlerLabel(r), req[r].status>>
            \in DOMAIN httpRequestsTotal

\* Every series of the request counter counts exactly the requests whose
\* increment has been applied under its labels, and likewise the histogram.
Accounted ==
    /\ \A l \in DOMAIN httpRequestsTotal :
         httpRequestsTotal[l] =
            Cardinality({r \in ReqIds : req[r].nInc = 1 /\ RequestLabels(req[r]) = l})
    /\ \A l \in DOMAIN httpRequestDuration :
         httpRequestDuration[l].count =
            Cardinality({r \in ReqIds : req[r].nObserve = 1 /\ DurationLabels(req[r]) = l})

-----------------------------------------------------------------------------
(* C1 *)

\* C1: every inbound request that has been answered, whatever its method,
\* path and status, has exactly one observation in http_request_duration_seconds
\* and one increment in http_requests_total, labelled with the matched route
\* template or the unmatched sentinel.
C1_EveryRequestRecordedOnce == \A r \in ReqIds : Exited(r) => RecordedOnce(r)

\* The same for the requests the engine dispatched to a handler chain (all but
\* the trailing-slash redirects).
C1_DispatchedRecordedOnce ==
    /\ \A r \in ReqIds : (Exited(r) /\ Dispatched(r)) => RecordedOnce(r)
    /\ Accounted

-----------------------------------------------------------------------------
(* C2 *)

\* C2: every request's state sequence is a prefix of Entered, SpanActive,
\* LoggerBound, Timing, HandlerExecuting, HandlerDone, MetricsRecorded,
\* SpanClosed, Exited, and the whole of it once the request is over.
C2_StateSequence ==
    \A r \in ReqIds :
        Arrived(r) =>
            /\ IsPrefix(req[r].trail, PipelineStates)
            /\ Exited(r) => req[r].trail = PipelineStates

\* The same for the requests the engine dispatched to a handler chain.
C2_DispatchedStateSequence ==
    \A r \in ReqIds :
        Dispatched(r) =>
            /\ IsPrefix(req[r].trail, PipelineStates)
            /\ Exited(r) => req[r].trail = PipelineStates

-----------------------------------------------------------------------------
(* C3 *)

\* The middlewares' calls of c.Next() and the metrics post-processing, each
\* exactly once for request r.
CalledThroughOnce(r) ==
    /\ CountIn(req[r].trail, "LoggerBound") = 1
    /\ CountIn(req[r].trail, "Timing") = 1
    /\ CountIn(req[r].trail, "HandlerExecuting") = 1
    /\ req[r].nObserve = 1
    /\ req[r].nInc = 1

\* C3: for every answered request, 4xx and 5xx included, structuredLogMiddleware
\* and prometheusMiddleware each called through exactly once and the
\* observation and the increment each ran exactly once.
C3_CallThroughOnce == \A r \in ReqIds : Exited(r) => CalledThroughOnce(r)

\* The same for the requests the engine dispatched to a handler chain.
C3_DispatchedCallThroughOnce ==
    \A r \in ReqIds : (Exited(r) /\ Dispatched(r)) => CalledThroughOnce(r)

-----------------------------------------------------------------------------
(* C4 *)

\* The trace_id / span_id fields of a log line.
FieldValues(line, key) == {a[2] : a \in {b \in line.attrs : b[1] = key}}

\* C4: every line a handler wrote through getLogger during a request with a
\* valid span carries exactly that span's trace id and span id, in their
\* textual form, and no other request's.
C4_LogCorrelation ==
    \A line \in logs :
        SpanContextIsValid(req[line.req].span) =>
            /\ FieldValues(line, "trace_id") = {HexString(req[line.req].span.traceID)}
            /\ FieldValues(line, "span_id") = {HexString(req[line.req].span.spanID)}
            /\ \A other \in ReqIds \ {line.req} :
                 SpanContextIsValid(req[other].span) =>
                    /\ HexString(req[other].span.traceID) \notin FieldValues(line, "trace_id")
                    /\ HexString(req[other].span.spanID) \notin FieldValues(line, "span_id")

\* Two requests with valid spans have both written log lines.
C4_Witness ==
    \E l1 \in logs : \E l2 \in logs :
        /\ l1.req # l2.req
        /\ SpanContextIsValid(req[l1.req].span)
        /\ SpanContextIsValid(req[l2.req].span)

-----------------------------------------------------------------------------
(* C5 *)

\* C5: once every request sent has completed, the request counter summed over
\* all series and the histogram's total observation count both equal the
\* number of completed requests.
C5_NoLostUpdate ==
    Quiescent =>
        LET n == Cardinality({r \in ReqIds : Exited(r)})
        IN CounterSum(httpRequestsTotal) = n /\ HistogramCount(httpRequestDuration) = n

\* The same, counting the requests the engine dispatched to a handler chain.
C5_DispatchedNoLostUpdate ==
    Quiescent =>
        LET n == Cardinality({r \in ReqIds : Exited(r) /\ Dispatched(r)})
        IN CounterSum(httpRequestsTotal) = n /\ HistogramCount(httpRequestDuration) = n

-----------------------------------------------------------------------------
(* C6 *)

\* The request is over, passed MetricsRecorded and SpanClosed once each, and
\* its observation and increment are complete in the accumulators.
ExitedRecorded(r) ==
    /\ Exited(r)
    /\ CountIn(req[r].trail, "MetricsRecorded") = 1
    /\ CountIn(req[r].trail, "SpanClosed") = 1
    /\ RecordedOnce(r)

\* C6: every request that enters the handler chain reaches Exited, having
\* passed MetricsRecorded and SpanClosed exactly once and with exactly one
\* complete observation and increment, also when the client aborts it; the
\* accumulators never hold a partial update.
C6_PipelineCompletes ==
    /\ \A r \in ReqIds : (InFlight(r) /\ Dispatched(r)) ~> ExitedRecorded(r)
    /\ [](Quiescent => Accounted)

\* A request the client aborted while its handler ran is over and recorded.
C6_Witness ==
    \E r \in ReqIds :
        /\ req[r].aborted
        /\ Dispatched(r)
        /\ ExitedRecorded(r)
        /\ req[r].status >= 400

-----------------------------------------------------------------------------
(* C7 *)

IsScrape(r) == req[r].route.kind = "route" /\ req[r].route.handler = "promhttp"

\* r1's scrape was answered before r2's was sent, and no other request was in
\* progress from the start of r1 to the end of r2.
ConsecutiveScrapes(r1, r2) ==
    /\ r1 # r2
    /\ IsScrape(r1) /\ IsScrape(r2)
    /\ Exited(r1) /\ Exited(r2)
    /\ req[r1].tOut < req[r2].tIn
    /\ \A r3 \in ReqIds \ {r1, r2} :
         \/ ~Arrived(r3)
         \/ Exited(r3) /\ req[r3].tOut < req[r1].tIn
         \/ req[r3].tIn > req[r2].tOut

CounterVecGrows(a, b) == \A l \in DOMAIN a : l \in DOMAIN b /\ b[l] >= a[l]

\* C7: of two consecutive scrapes with no other request in between, the later
\* response has every counter at least as high as the earlier one and every
\* histogram series with the same bucket counts and observation count.
C7_ScrapeIdempotent ==
    \A r1 \in ReqIds : \A r2 \in ReqIds :
        ConsecutiveScrapes(r1, r2) =>
            LET a == req[r1].body
                b == req[r2].body
            IN /\ CounterVecGrows(a.http_requests_total, b.http_requests_total)
               /\ CounterVecGrows(a.item_operations_total, b.item_operations_total)
               /\ b.search_requests_total >= a.search_requests_total
               /\ b.http_request_duration_seconds = a.http_request_duration_seconds
               /\ b.search_results_count = a.search_results_count

-----------------------------------------------------------------------------
(* C8 *)

\* The methods net/http names; the route templates; the statuses and labels
\* the handlers use.
StandardMethods ==
    {"GET", "HEAD", "POST", "PUT", "PATCH", "DELETE", "CONNECT", "OPTIONS", "TRACE"}

HandlerLabels == {rt.fullPath : rt \in Routes} \cup {UnmatchedLabel}

StatusCodes == {200, 400, 404, 500}

\* C8: every label value of every series comes from a fixed enumerated set,
\* never from the request's raw path, raw method or parameters.
C8_BoundedLabels ==
    /\ \A l \in DOMAIN httpRequestsTotal :
         l[1] \in StandardMethods /\ l[2] \in HandlerLabels /\ l[3] \in StatusCodes
    /\ \A l \in DOMAIN httpRequestDuration :
         l[1] \in StandardMethods /\ l[2] \in HandlerLabels
    /\ \A l \in DOMAIN itemOperationsTotal :
         l[1] \in {"read", "create"} /\ l[2] \in {"success", "bad_request", "not_found"}

\* The same without the method label.
C8_BoundedButMethod ==
    /\ \A l \in DOMAIN httpRequestsTotal : l[2] \in HandlerLabels /\ l[3] \in StatusCodes
    /\ \A l \in DOMAIN httpRequestDuration : l[2] \in HandlerLabels
    /\ \A l \in DOMAIN itemOperationsTotal :
         l[1] \in {"read", "create"} /\ l[2] \in {"success", "bad_request", "not_found"}

-----------------------------------------------------------------------------
(* C9 *)

TracerFailureLogged == CountIn(mainLog, <<"ERROR", "Failed to initialize tracer">>)

\* C9: when main reaches initTracer and the collector cannot be reached, then
\* (unless the collector becomes reachable after all) main logs the failure
\* exactly once and goes on to set up the router and serve.
C9_TracerFailureDegrades ==
    (mainPc = "initTracer" /\ ~collectorUp)
        ~> (collectorUp \/ (mainPc \in {"setup", "serving"} /\ TracerFailureLogged = 1))

-----------------------------------------------------------------------------
(* C10 *)

SpanStarted(r) == CountIn(req[r].trail, "SpanActive") > 0

\* C10: with tracing initialised, a request without an upstream trace header
\* gets a root span with a fresh trace id, and a request with a valid upstream
\* trace/span id pair gets a child span of the upstream span in its trace.
C10_SpanParentage ==
    tracerProvider = "sdk" =>
        \A r \in ReqIds :
            SpanStarted(r) =>
                /\ ~req[r].in.hdr.present =>
                      /\ req[r].span.parentSpanID = ZeroSpanID
                      /\ req[r].span.traceID = NewTraceID(r)
                /\ HeaderValid(req[r].in.hdr) =>
                      /\ req[r].span.traceID = req[r].in.hdr.traceID
                      /\ req[r].span.parentSpanID = req[r].in.hdr.spanID

\* What the code does: every span is a root span with a fresh trace id.
C10_AlwaysRoot ==
    tracerProvider = "sdk" =>
        \A r \in ReqIds :
            SpanStarted(r) =>
                /\ req[r].span.parentSpanID = ZeroSpanID
                /\ req[r].span.traceID = NewTraceID(r)

-----------------------------------------------------------------------------
(* C11 *)

\* The route's handler has run and returned for request r.
HandlerReturned(r, h) ==
    /\ req[r].route.kind = "route"
    /\ req[r].route.handler = h
    /\ req[r].st \in {"HandlerDone", "MetricsRecorded", "SpanClosed", "Exited"}

\* A warning-level line was written for request r.
WarnLogged(r) == \E l \in logs : l.req = r /\ l.level = "WARN"

\* Inputs that fail a business handler's validation.
InvalidItemId(rq) == ~Atoi(Chars[rq.in.segs[2]]).ok

InvalidMinPrice(rq) == rq.in.query.hasMinPrice /\ ~ParseFloat(rq.in.query.min_price).ok

InvalidBody(rq) == ~BindsItem(rq.in.body)

\* What the design asks of a recovered validation failure.
SurfacedAsClientError(r, counted) ==
    /\ req[r].status \in 400..499
    /\ WarnLogged(r)
    /\ counted
    /\ mainPc = "serving"
    /\ exitCode = -1

ItemOperations(lbl) ==
    IF lbl \in DOMAIN itemOperationsTotal THEN itemOperationsTotal[lbl] ELSE 0

\* C11: a request whose input failed validation in readItem (non-numeric item
\* id), searchItems (unparsable min_price) or createItem (body that does not
\* bind) has, once the handler returned, a 4xx response, a warning-level log
\* line and an increment of a domain counter, and the process is still serving.
C11_ValidationFailureSurfaced ==
    \A r \in ReqIds :
        /\ (HandlerReturned(r, "readItem") /\ InvalidItemId(req[r]))
              => SurfacedAsClientError(r, ItemOperations(<<"read", "bad_request">>) >= 1)
        /\ (HandlerReturned(r, "searchItems") /\ InvalidMinPrice(req[r]))
              => SurfacedAsClientError(r, searchRequestsTotal >= 1)
        /\ (HandlerReturned(r, "createItem") /\ InvalidBody(req[r]))
              => SurfacedAsClientError(r, ItemOperations(<<"create", "bad_request">>) >= 1)

\* What the code does: readItem and createItem surface the failure as a 400;
\* searchItems logs the warning, counts the search, falls back to min_price 0
\* and answers 200.
C11_SearchAnswersOk ==
    \A r \in ReqIds :
        /\ (HandlerReturned(r, "readItem") /\ InvalidItemId(req[r]))
              => SurfacedAsClientError(r, ItemOperations(<<"read", "bad_request">>) >= 1)
        /\ (HandlerReturned(r, "createItem") /\ InvalidBody(req[r]))
              => SurfacedAsClientError(r, ItemOperations(<<"create", "bad_request">>) >= 1)
        /\ (HandlerReturned(r, "searchItems") /\ InvalidMinPrice(req[r]))
              => /\ req[r].status = 200
                 /\ WarnLogged(r)
                 /\ searchRequestsTotal >= 1
                 /\ mainPc = "serving"

-----------------------------------------------------------------------------
(* C12 *)

\* Status label of item_operations_total that corresponds to a response code.
ItemStatusLabel(code) ==
    CASE code = 200 -> "success"
      [] code = 400 -> "bad_request"
      [] code = 404 -> "not_found"
      [] OTHER -> "other"

ItemHandlers == {"readItem", "createItem"}

ItemOperationOf(h) == IF h = "readItem" THEN "read" ELSE "create"

\* The series the request's response code calls for.
ExpectedItemLabel(r) ==
    <<ItemOperationOf(req[r].route.handler), ItemStatusLabel(req[r].status)>>

\* Requests readItem or createItem has answered.
ItemRequestsAnswered == {r \in ReqIds : \E h \in ItemHandlers : HandlerReturned(r, h)}

\* C12: every request readItem or createItem has answered is counted exactly
\* once in item_operations_total, in the series (read|create, success |
\* bad_request | not_found) that corresponds to its response code 200 | 400 |
\* 404, and nothing else is counted there; a stored id gives 200, an absent
\* integer id 404, a body without its price 400.
C12_ItemOperationCounted ==
    /\ \A lbl \in DOMAIN itemOperationsTotal :
         itemOperationsTotal[lbl] =
            Cardinality({r \in ItemRequestsAnswered : ExpectedItemLabel(r) = lbl})
    /\ \A r \in ItemRequestsAnswered :
         /\ req[r].status \in {200, 400, 404}
         /\ ExpectedItemLabel(r) \in DOMAIN itemOperationsTotal
         /\ (req[r].route.handler = "readItem" /\ req[r].in.segs[2] = "1")
               => req[r].status = 200
         /\ (req[r].route.handler = "readItem" /\ req[r].in.segs[2] = "999")
               => req[r].status = 404
         /\ (req[r].route.handler = "createItem" /\ req[r].in.body.price = 0)
               => req[r].status = 400
         /\ (req[r].route.handler = "createItem" /\ req[r].in.body.price = 500)
               => req[r].status = 200

\* An absent item and a body without price have both been answered and counted.
C12_Witness ==
    /\ \E r \in ItemRequestsAnswered :
         req[r].route.handler = "readItem" /\ req[r].status = 404
    /\ \E r \in ItemRequestsAnswered :
         req[r].route.handler = "createItem" /\ req[r].status = 400
    /\ ItemOperations(<<"read", "not_found">>) = 1
    /\ ItemOperations(<<"create", "bad_request">>) = 1

-----------------------------------------------------------------------------
(* C13 *)

SearchesAnswered == {r \in ReqIds : HandlerReturned(r, "searchItems")}

Catalogue == {allItems[i] : i \in 1..Len(allItems)}

\* Two characters that differ at most by case.
SameLetter(a, b) == ToLowerChar(a) = ToLowerChar(b)

\* sub occurs in s, case-insensitively.
ContainsFold(s, sub) ==
    \E i \in 0..(Len(s) - Len(sub)) :
        \A j \in 1..Len(sub) : SameLetter(s[i + j], sub[j])

\* The min_price of a query: its numeric value, 0 when the parameter is absent
\* or is not a number.
RequestedMinPrice(q) ==
    IF q.hasMinPrice /\ ParseFloat(q.min_price).ok THEN ParseFloat(q.min_price).val
    ELSE 0

\* The catalogue items a query asks for.
Wanted(q) ==
    {item \in Catalogue :
        /\ q.name = <<>> \/ ContainsFold(Chars[item.name], q.name)
        /\ item.price >= RequestedMinPrice(q)}

Items(body) == {body[i] : i \in 1..Len(body)}

\* C13: every search that has been answered got 200 and a result list holding
\* exactly (and once each) the catalogue items whose name contains the name
\* parameter case-insensitively (all of them for an empty name) and whose
\* price is at least min_price; search_requests_total counts each answered
\* search once, and search_results_count holds one observation per answered
\* search, of the number of items returned.
C13_SearchCounted ==
    /\ \A r \in SearchesAnswered :
         /\ req[r].status = 200
         /\ Items(req[r].body) = Wanted(req[r].in.query)
         /\ Len(req[r].body) = Cardinality(Wanted(req[r].in.query))
    /\ searchRequestsTotal = Cardinality(SearchesAnswered)
    /\ searchResultsCount.count = Cardinality(SearchesAnswered)
    /\ searchResultsCount.sum =
          SumOver([r \in ReqIds |-> Len(req[r].body)], SearchesAnswered)
    /\ \A i \in DOMAIN searchResultsCount.buckets :
         searchResultsCount.buckets[i] =
            Cardinality({r \in SearchesAnswered :
                            BucketIndex(SearchBuckets, Len(req[r].body)) = i})

\* A search whose price bound removes items that match by name, next to the
\* spec's scenario (name=laptop, min_price=100: one result).
C13_Witness ==
    /\ \E r \in SearchesAnswered :
         /\ req[r].in.query.name = <<"O">>
         /\ Len(req[r].body) = 2
    /\ \E r \in SearchesAnswered :
         /\ req[r].in.query.name = Chars["laptop"]
         /\ Len(req[r].body) = 1
    /\ searchRequestsTotal = 2
    /\ searchResultsCount.sum = 3

-----------------------------------------------------------------------------
(* C14 *)

\* Span contexts a gin.Context can carry when a handler runs, the invalid
\* ones (a zero trace id or a zero span id) included.
TraceBytes == {0, 171}
SpanBytes == {0, 239}

SpanContexts ==
    {[traceID |-> <<a, b>>, spanID |-> <<c>>] :
        a \in TraceBytes, b \in TraceBytes, c \in SpanBytes}

\* gin.Contexts on which a handler can be called: one on which
\* structuredLogMiddleware did not run (nothing under "logger"), and those on
\* which it ran with some span context.
HandlerContexts ==
    {[span |-> NoSpan, keys |-> NoKeys]}
    \cup {[span |-> [NoSpan EXCEPT !.traceID = sc.traceID, !.spanID = sc.spanID],
           keys |-> ("logger" :> RequestLogger(sc))] : sc \in SpanContexts}

\* Requests of the load that have a handler of their own.
HandlerInputs == {in \in LiveInputs : Route(in.method, in.segs, in.slash).kind = "route"}

\* The handlers called directly, each on a context drawn from HandlerContexts.
GetLoggerInit ==
    /\ mainPc = "serving"
    /\ workload = HandlerInputs
    /\ collectorUp = TRUE
    /\ logSinkOk = TRUE
    /\ tracerProvider = "sdk"
    /\ mainLog = <<>>
    /\ exitCode = -1
    /\ req \in [ReqIds ->
            {[Idle EXCEPT !.st = "HandlerExecuting", !.in = in,
                          !.route = Route(in.method, in.segs, in.slash),
                          !.idx = Len(Middlewares) + 1, !.phase = "pre",
                          !.span = c.span, !.keys = c.keys,
                          !.trail = <<"HandlerExecuting">>] :
                in \in HandlerInputs, c \in HandlerContexts}]
    /\ nextReq = MaxReq + 1
    /\ clock = 0
    /\ logs = {}
    /\ httpRequestsTotal = <<>>
    /\ httpRequestDuration = <<>>
    /\ itemOperationsTotal = <<>>
    /\ searchRequestsTotal = 0
    /\ searchResultsCount = EmptyHistogram(SearchBuckets)

GetLoggerNext == \E r \in ReqIds : Handler(r)

GetLoggerSpec == GetLoggerInit /\ [][GetLoggerNext]_vars

\* Handlers that write through getLogger(c).
LoggingHandlers ==
    {"readRoot", "readItem", "searchItems", "createItem", "getStatus",
     "getError500", "getError400"}

LoggerBound(r) == "logger" \in DOMAIN req[r].keys

\* C14: getLogger never fails: a handler called on any context runs to its
\* end and writes its lines; on a context without a bound logger it wrote them
\* through the unenriched default logger (no trace_id, no span_id), and on a
\* context with a bound logger through exactly that logger.
C14_GetLoggerFallback ==
    /\ \A r \in ReqIds :
         \A h \in LoggingHandlers :
            /\ AtHandler(r, h) => ENABLED Handler(r)
            /\ HandlerReturned(r, h) => \E l \in logs : l.req = r
    /\ \A l \in logs :
         IF LoggerBound(l.req)
         THEN /\ l.sink = req[l.req].keys["logger"].sink
              /\ l.attrs = req[l.req].keys["logger"].attrs
         ELSE /\ l.sink = DefaultLogger.sink
              /\ l.attrs = {}

\* One handler has logged on a context without a bound logger, another on a
\* context whose bound logger carries trace_id and span_id.
C14_Witness ==
    /\ \E l \in logs : ~LoggerBound(l.req) /\ l.sink = DefaultLogger.sink
    /\ \E l \in logs : LoggerBound(l.req) /\ l.attrs # {}

-----------------------------------------------------------------------------
(* C15 *)

\* main() has not got past newSlogLogger: no tracer, no router, no request.
NothingStarted ==
    /\ mainPc \in {"newSlogLogger", "exited"}
    /\ tracerProvider = "noop"
    /\ mainLog = <<>>
    /\ \A r \in ReqIds : req[r].st = "Idle"
    /\ nextReq = 1
    /\ logs = {}
    /\ httpRequestsTotal = <<>>

ExitedWithFailure == mainPc = "exited" /\ exitCode = 1

\* C15: in a run in which the log directory cannot be created or the log file
\* cannot be opened, main() never gets to the tracer, the router or a request,
\* and the process exits with status 1.
C15_LoggerFailureIsFatal ==
    /\ [](~logSinkOk => (NothingStarted /\ (mainPc = "exited" => exitCode = 1)))
    /\ (~logSinkOk ~> ExitedWithFailure)

\* The process has exited on the logger's failure.
C15_Witness == ~logSinkOk /\ ExitedWithFailure /\ NothingStarted

-----------------------------------------------------------------------------
(* C16 *)

\* item_operations_total{operation="read"}, summed over its statuses.
ReadOperations ==
    SumOver(itemOperationsTotal, {l \in DOMAIN itemOperationsTotal : l[1] = "read"})

\* http_requests_total{method="GET", handler="/items/:item_id"}, summed over
\* its statuses.
ReadRequests ==
    SumOver(httpRequestsTotal,
            {l \in DOMAIN httpRequestsTotal : l[1] = "GET" /\ l[2] = "/items/:item_id"})

ReadInFlight(r) == InFlight(r) /\ req[r].route.fullPath = "/items/:item_id"

\* C16: in every reachable state the read operations counted are at least the
\* requests counted for GET /items/:item_id, and the two are equal whenever no
\* request to that route is in flight.
C16_DomainCounterLeads ==
    /\ ReadOperations >= ReadRequests
    /\ (\A r \in ReqIds : ~ReadInFlight(r)) => ReadOperations = ReadRequests

\* One read is over and counted in both places, another has been counted by
\* readItem and not yet by the metrics middleware.
C16_Witness ==
    /\ ReadOperations = 2
    /\ ReadRequests = 1
    /\ \E r \in ReqIds : ReadInFlight(r) /\ HandlerReturned(r, "readItem")
    /\ \E r \in ReqIds : Exited(r) /\ HandlerReturned(r, "readItem")

=============================================================================
